---- MODULE Spec2Model ----
(***************************************************************************)
(* Model of sources/unstructured_data/__init__.py: the resource            *)
(* configurator unstructured_to_structured_resource and the per-item       *)
(* transformer convert_data, together with the collaborators they touch    *)
(* (the extraction engine, the logger, the host pipeline's merge write).   *)
(***************************************************************************)
EXTENDS Integers, Sequences, FiniteSets, TLC

\* Number of items the upstream resource delivers in one run.
MaxItems == 2

\* Python's None, for values that are strings otherwise.
PyNone == "None"

EmptyMap == [k \in {} |-> ""]

\* ---------------------------------------------------------------------
\* Collaborators imported from .helpers and .settings
\* ---------------------------------------------------------------------

\* settings.INVOICE_QUERIES: the built-in invoice query map.
INVOICE_QUERIES ==
    [invoice_number |-> "What is the invoice number?",
     total |-> "What is the total amount?"]

\* helpers.vectorstore_mapping: fixed name -> backend handle mapping.
vectorstore_mapping ==
    [chroma |-> "Chroma", weaviate |-> "Weaviate",
     elastic_search |-> "ElasticVectorSearch"]

\* Exceptions are identified by class and cause.
NoExc == [class |-> "none", cause |-> "none"]
UnsupportedFormat == [class |-> "ValueError", cause |-> "unsupported_format"]
OtherValueError == [class |-> "ValueError", cause |-> "other"]
RuntimeFailure == [class |-> "RuntimeError", cause |-> "other"]
KeyErrorOf(key) == [class |-> "KeyError", cause |-> key]

EngineFailures == {UnsupportedFormat, OtherValueError, RuntimeFailure}

ExtractedValues == {"v1", "v2"}

NoCall == [kind |-> "nocall", fields |-> EmptyMap, exc |-> NoExc]
Returned(F) == [kind |-> "fields", fields |-> F, exc |-> NoExc]
Failed(e) == [kind |-> "raise", fields |-> EmptyMap, exc |-> e]

\* What process_file_to_structured / aprocess_file_to_structured can do
\* for a query map: return one value per query key, or fail.
EngineOutcomes(queries) ==
    {Returned(F) : F \in [DOMAIN queries -> ExtractedValues]}
        \cup {Failed(e) : e \in EngineFailures}

\* ---------------------------------------------------------------------
\* Inputs
\* ---------------------------------------------------------------------

\* The queries argument: omitted/None, an empty mapping, a custom mapping.
CustomQueries == [vendor |-> "Who is the vendor?"]
QueriesArgs ==
    {[none |-> TRUE, map |-> EmptyMap],
     [none |-> FALSE, map |-> EmptyMap],
     [none |-> FALSE, map |-> CustomQueries]}

ApiKeys == {"", "sk-1"}
VectorstoreNames == {"chroma", "weaviate", "pinecone"}
TableNames == {"unstructured_to_structured_resource"}

FilePaths == {"a.pdf", ""}
DataHashes == {"h1", "h2"}

\* Items of the upstream resource: metadata with a data_hash, and a
\* file_path that is a path, the empty string, None, or absent.
Items ==
    {[file_path |-> p, data_hash |-> h] : p \in FilePaths \cup {PyNone}, h \in DataHashes}
        \cup {[data_hash |-> h] : h \in DataHashes}

\* ---------------------------------------------------------------------
\* Pure helpers of convert_data
\* ---------------------------------------------------------------------

\* dict.get(key): the value, or None when the key is absent.
Get(item, key) == IF key \in DOMAIN item THEN item[key] ELSE PyNone

\* Variant: the guard never skips.
FilePathNeverMissing(item) == FALSE

\* line 77: unstructured_item.get("file_path") is None
FilePathMissing(item) == Get(item, "file_path") = PyNone

\* Variants: a handler that catches nothing / every exception.
CatchesNothing(exc) == FALSE
CatchesEverything(exc) == TRUE

\* line 99: except ValueError
Catches(exc) == exc.class = "ValueError"

\* Variant: the async branch always passes the default backend.
AsyncCallArgsDefaultBackend(item, queries, vectorstore) ==
    [file_path |-> item["file_path"], queries |-> queries,
     backend |-> vectorstore_mapping["chroma"]]

\* lines 83-87: the arguments of the aprocess_file_to_structured call
AsyncCallArgs(item, queries, vectorstore) ==
    [file_path |-> item["file_path"], queries |-> queries,
     backend |-> vectorstore_mapping[vectorstore]]

\* lines 90-94: the arguments of the process_file_to_structured call
SyncCallArgs(item, queries, vectorstore) ==
    [file_path |-> item["file_path"], queries |-> queries,
     backend |-> vectorstore_mapping[vectorstore]]

\* Variant: the item is emptied instead of losing file_path only.
PopEverything(item) == EmptyMap

\* line 95: unstructured_item.pop("file_path"), the item left behind
PopFilePath(item) == [k \in DOMAIN item \ {"file_path"} |-> item[k]]

\* Variant: the metadata keeps the file_path key.
BuildResponseKeepingPath(F, item) ==
    [k \in DOMAIN F \cup {"file_path", "metadata"} |->
        IF k = "file_path" THEN item["file_path"]
        ELSE IF k = "metadata" THEN item
        ELSE F[k]]

\* lines 95-96: the response with file_path and metadata set
BuildResponse(F, item) ==
    [k \in DOMAIN F \cup {"file_path", "metadata"} |->
        IF k = "file_path" THEN item["file_path"]
        ELSE IF k = "metadata" THEN PopFilePath(item)
        ELSE F[k]]

\* ---------------------------------------------------------------------
\* Declarations made to the host pipeline, and its merge write
\* ---------------------------------------------------------------------

WriteDisposition == "merge"
MergeKeyFilePath == "file_path"
MergeKey == "metadata__data_hash"
PrimaryKey == "metadata__data_hash"

\* Column names of nested fields: parent__child.
ColumnPath(col) ==
    IF col = "metadata__data_hash" THEN <<"metadata", "data_hash">> ELSE <<col>>

ColumnValue(rec, col) ==
    LET p == ColumnPath(col)
    IN IF Len(p) = 2 THEN rec[p[1]][p[2]] ELSE rec[p[1]]

\* Merge write: rows with the record's merge key value are replaced.
Merge(rows, rec, key) ==
    SelectSeq(rows, LAMBDA r : ColumnValue(r, key) # ColumnValue(rec, key))
        \o <<rec>>

\* ---------------------------------------------------------------------
\* State
\* ---------------------------------------------------------------------

VARIABLES
    pc,        \* position: Unconfigured, Ready, Received, FilePathChecked,
               \* Extracting, Emitted, SkippedMissing, SkippedUnsupported,
               \* FatalPropagated
    args,      \* the arguments unstructured_to_structured_resource was called with
    environ,   \* os.environ["OPENAI_API_KEY"]
    bound,     \* queries, vectorstore, run_async bound to convert_data
    decl,      \* name, write_disposition, merge_key, primary_key of the transformer
    cur,       \* unstructured_item, the mapping the caller handed in
    hist,      \* per item: the item as delivered, the engine outcome, the result
    calls,     \* extraction-engine calls started
    lookups,   \* number of vectorstore_mapping[...] evaluations
    emitted,   \* records yielded
    warnings,  \* logger.warning calls
    infos,     \* number of logger.info calls
    raised,    \* the exception that left convert_data
    table,     \* rows of the output table
    loaded     \* number of emitted records the host has merged

vars == <<pc, args, environ, bound, decl, cur, hist, calls, lookups, emitted,
          warnings, infos, raised, table, loaded>>

NoArgs == [queries |-> [none |-> TRUE, map |-> EmptyMap], openai_api_key |-> "",
           vectorstore |-> "chroma", table_name |-> "", run_async |-> FALSE]

Init ==
    /\ pc = "Unconfigured"
    /\ args = NoArgs
    /\ environ = "unset"
    /\ bound = [queries |-> EmptyMap, vectorstore |-> "chroma", run_async |-> FALSE]
    /\ decl = [name |-> "", write_disposition |-> "", merge_key |-> "", primary_key |-> ""]
    /\ cur = EmptyMap
    /\ hist = <<>>
    /\ calls = <<>>
    /\ lookups = 0
    /\ emitted = <<>>
    /\ warnings = <<>>
    /\ infos = 0
    /\ raised = NoExc
    /\ table = <<>>
    /\ loaded = 0

\* ---------------------------------------------------------------------
\* unstructured_to_structured_resource
\* ---------------------------------------------------------------------

\* lines 46-47: if queries is None: queries = dict(INVOICE_QUERIES)
ResolveQueries(q) == IF q.none THEN INVOICE_QUERIES ELSE q.map

Configure(q, key, vs, name, ra) ==
    /\ pc = "Unconfigured"
    /\ args' = [queries |-> q, openai_api_key |-> key, vectorstore |-> vs,
                table_name |-> name, run_async |-> ra]
    /\ environ' = IF key # "" THEN key ELSE environ
    /\ bound' = [queries |-> ResolveQueries(q), vectorstore |-> vs, run_async |-> ra]
    /\ decl' = [name |-> name, write_disposition |-> WriteDisposition,
                merge_key |-> MergeKey, primary_key |-> PrimaryKey]
    /\ pc' = "Ready"
    /\ UNCHANGED <<cur, hist, calls, lookups, emitted, warnings, infos, raised,
                   table, loaded>>

\* ---------------------------------------------------------------------
\* convert_data
\* ---------------------------------------------------------------------

Continuing == {"Ready", "Emitted", "SkippedMissing", "SkippedUnsupported"}
Terminal == {"Emitted", "SkippedMissing", "SkippedUnsupported", "FatalPropagated"}

SetLast(s, f, v) == [s EXCEPT ![Len(s)] = [@ EXCEPT ![f] = v]]
Finish(h, result) == SetLast(h, "result", result)

\* What has been observed so far: calls, lookups, records, log lines.
Counters ==
    [calls |-> Len(calls), lookups |-> lookups, emitted |-> Len(emitted),
     warnings |-> Len(warnings), infos |-> infos]

\* The transformer is called with the next item of the upstream resource.
Receive(item) ==
    /\ pc \in Continuing
    /\ Len(hist) < MaxItems
    /\ cur' = item
    /\ hist' = Append(hist, [item |-> item, outcome |-> NoCall, result |-> "Running",
                              base |-> Counters])
    /\ pc' = "Received"
    /\ UNCHANGED <<args, environ, bound, decl, calls, lookups, emitted, warnings,
                   infos, raised, table, loaded>>

\* lines 77-78
CheckFilePath ==
    /\ pc = "Received"
    /\ IF FilePathMissing(cur)
       THEN /\ pc' = "SkippedMissing"
            /\ hist' = Finish(hist, "SkippedMissing")
       ELSE /\ pc' = "FilePathChecked"
            /\ hist' = hist
    /\ UNCHANGED <<args, environ, bound, decl, cur, calls, lookups, emitted,
                   warnings, infos, raised, table, loaded>>

\* lines 99-102: an exception raised inside the try block
Raise(exc, h) ==
    IF Catches(exc)
    THEN /\ warnings' = Append(warnings, [file |-> cur["file_path"], error |-> exc])
         /\ pc' = "SkippedUnsupported"
         /\ hist' = Finish(h, "SkippedUnsupported")
         /\ raised' = raised
    ELSE /\ warnings' = warnings
         /\ pc' = "FatalPropagated"
         /\ hist' = Finish(h, "FatalPropagated")
         /\ raised' = exc

EngineFn(run_async) ==
    IF run_async THEN "aprocess_file_to_structured" ELSE "process_file_to_structured"

CallArgs(run_async, item, queries, vectorstore) ==
    IF run_async THEN AsyncCallArgs(item, queries, vectorstore)
    ELSE SyncCallArgs(item, queries, vectorstore)

\* lines 79-94 up to the start of the engine call: the arguments are
\* evaluated left to right, then the call is made.
Dispatch ==
    /\ pc = "FilePathChecked"
    /\ infos' = IF bound.run_async THEN infos + 1 ELSE infos
    /\ IF "file_path" \notin DOMAIN cur
       THEN /\ Raise(KeyErrorOf("file_path"), hist)
            /\ UNCHANGED <<calls, lookups>>
       ELSE /\ lookups' = lookups + 1
            /\ IF bound.vectorstore \notin DOMAIN vectorstore_mapping
               THEN /\ Raise(KeyErrorOf(bound.vectorstore), hist)
                    /\ calls' = calls
               ELSE /\ calls' = Append(calls,
                          [fn |-> EngineFn(bound.run_async),
                           args |-> CallArgs(bound.run_async, cur, bound.queries,
                                             bound.vectorstore),
                           done |-> FALSE])
                    /\ pc' = "Extracting"
                    /\ UNCHANGED <<hist, warnings, raised>>
    /\ UNCHANGED <<args, environ, bound, decl, cur, emitted, table, loaded>>

\* The engine call returns or raises (asyncio.run returns only when the
\* coroutine has finished); lines 95-97 and 99-102.
EngineReturns(o) ==
    /\ pc = "Extracting"
    /\ calls' = SetLast(calls, "done", TRUE)
    /\ IF o.kind = "fields"
       THEN /\ emitted' = Append(emitted, BuildResponse(o.fields, cur))
            /\ cur' = PopFilePath(cur)
            /\ pc' = "Emitted"
            /\ hist' = Finish(SetLast(hist, "outcome", o), "Emitted")
            /\ UNCHANGED <<warnings, raised>>
       ELSE /\ Raise(o.exc, SetLast(hist, "outcome", o))
            /\ UNCHANGED <<emitted, cur>>
    /\ UNCHANGED <<args, environ, bound, decl, lookups, infos, table, loaded>>

\* The host pipeline merges the next emitted record into the output table.
Load ==
    /\ loaded < Len(emitted)
    /\ decl.write_disposition = "merge"
    /\ table' = Merge(table, emitted[loaded + 1], decl.merge_key)
    /\ loaded' = loaded + 1
    /\ UNCHANGED <<pc, args, environ, bound, decl, cur, hist, calls, lookups,
                   emitted, warnings, infos, raised>>

Next ==
    \/ \E q \in QueriesArgs, key \in ApiKeys, vs \in VectorstoreNames,
          name \in TableNames, ra \in BOOLEAN : Configure(q, key, vs, name, ra)
    \/ \E item \in Items : Receive(item)
    \/ CheckFilePath
    \/ Dispatch
    \/ \E o \in EngineOutcomes(bound.queries) : EngineReturns(o)
    \/ Load

Spec == Init /\ [][Next]_vars

\* ---------------------------------------------------------------------
\* Properties
\* ---------------------------------------------------------------------

Last(s) == s[Len(s)]
Started == hist # <<>>
Item == Last(hist).item
Base == Last(hist).base
Outcome == Last(hist).outcome

\* The item carries a file path (the key is there and its value is not None).
HasFilePath(item) == "file_path" \in DOMAIN item /\ item["file_path"] # PyNone

\* rec is fields F plus file_path and metadata taken from item.
IsRecordOf(rec, F, item) ==
    /\ DOMAIN rec = DOMAIN F \cup {"file_path", "metadata"}
    /\ \A k \in DOMAIN F \ {"file_path", "metadata"} : rec[k] = F[k]
    /\ rec["file_path"] = item["file_path"]
    /\ "file_path" \notin DOMAIN rec["metadata"]
    /\ DOMAIN rec["metadata"] = DOMAIN item \ {"file_path"}
    /\ \A k \in DOMAIN item \ {"file_path"} : rec["metadata"][k] = item[k]

NoEffectSinceReceive ==
    /\ Len(calls) = Base.calls
    /\ lookups = Base.lookups
    /\ Len(emitted) = Base.emitted
    /\ Len(warnings) = Base.warnings

\* C1: an item with a file_path whose extraction returned fields F has
\* produced exactly one record, equal to F plus file_path = the item's
\* file_path plus metadata = the item's other fields.
C1_OneRecordPerExtraction ==
    (Started /\ HasFilePath(Item) /\ Outcome.kind = "fields") =>
        /\ pc = "Emitted"
        /\ Len(emitted) = Base.emitted + 1
        /\ IsRecordOf(Last(emitted), Outcome.fields, Item)

C1_Witness ==
    /\ pc = "Emitted"
    /\ Item["file_path"] = "a.pdf"
    /\ DOMAIN Outcome.fields = DOMAIN INVOICE_QUERIES
    /\ Last(emitted)["metadata"]["data_hash"] = "h2"

\* Items whose extraction succeeded, up to and including item i.
Rank(i) == Cardinality({j \in 1..i : hist[j].outcome.kind = "fields"})
UnsupportedUpTo(i) ==
    Cardinality({j \in 1..i : hist[j].outcome.exc = UnsupportedFormat})

\* Every extraction made so far succeeded or failed with unsupported format.
OnlyRecoverable ==
    \A i \in 1..Len(hist) :
        (hist[i].result # "Running" /\ HasFilePath(hist[i].item)) =>
            \/ hist[i].outcome.kind = "fields"
            \/ hist[i].outcome.exc = UnsupportedFormat

\* C2: while every extraction succeeds or fails with unsupported format,
\* processing is never stopped, the emitted stream is exactly the records of
\* the successful items in input order, and there is one warning per
\* unsupported item, naming its file.
C2_SkipAndContinue ==
    OnlyRecoverable =>
        /\ pc # "FatalPropagated"
        /\ raised = NoExc
        /\ Len(emitted) = Rank(Len(hist))
        /\ Len(warnings) = UnsupportedUpTo(Len(hist))
        /\ \A i \in 1..Len(hist) :
              /\ hist[i].outcome.kind = "fields" =>
                    IsRecordOf(emitted[Rank(i)], hist[i].outcome.fields, hist[i].item)
              /\ hist[i].outcome.exc = UnsupportedFormat =>
                    /\ hist[i].result = "SkippedUnsupported"
                    /\ warnings[UnsupportedUpTo(i)].file = hist[i].item["file_path"]
              /\ hist[i].result # "Running" => (pc \in Continuing \/ i < Len(hist))

C2_Witness ==
    /\ Len(hist) = 2
    /\ hist[1].outcome.exc = UnsupportedFormat
    /\ hist[2].outcome.kind = "fields"
    /\ pc = "Emitted"
    /\ Len(emitted) = 1

\* C3: an item without a file_path is a silent no-op: no record, no engine
\* call, no backend lookup, no warning, no failure.
C3_MissingFilePathNoOp ==
    (Started /\ ~HasFilePath(Item)) =>
        /\ pc \in {"Received", "SkippedMissing"}
        /\ NoEffectSinceReceive
        /\ raised = NoExc
        /\ Outcome = NoCall

C3_Witness ==
    /\ pc = "SkippedMissing"
    /\ "file_path" \notin DOMAIN Item
    /\ bound.vectorstore = "pinecone"
    /\ bound.run_async

\* C4: every engine failure other than unsupported format propagates
\* unmodified and logs no warning.
C4_OnlyUnsupportedIsSkipped ==
    (Started /\ Outcome.kind = "raise" /\ Outcome.exc # UnsupportedFormat) =>
        /\ pc = "FatalPropagated"
        /\ raised = Outcome.exc
        /\ Len(warnings) = Base.warnings

\* C5: with a vectorstore name outside the mapping, an item with a file_path
\* ends in a propagated lookup failure, with no record, no warning and no
\* engine call started, in either mode.
C5_UnknownVectorstoreFatal ==
    (Started /\ HasFilePath(Item) /\ bound.vectorstore \notin DOMAIN vectorstore_mapping) =>
        /\ pc \in {"Received", "FilePathChecked", "FatalPropagated"}
        /\ pc = "FatalPropagated" =>
              /\ raised = KeyErrorOf(bound.vectorstore)
              /\ Last(hist).result = "FatalPropagated"
        /\ Len(calls) = Base.calls
        /\ Len(emitted) = Base.emitted
        /\ Len(warnings) = Base.warnings

C5_Witness ==
    /\ pc = "FatalPropagated"
    /\ raised = KeyErrorOf("pinecone")
    /\ bound.run_async
    /\ HasFilePath(Item)

\* C6: queries omitted or empty binds the default invoice query map, a
\* non-empty mapping binds itself, and every engine call gets the bound map.
C6_DefaultQueries ==
    pc # "Unconfigured" =>
        /\ bound.queries =
              IF args.queries.none \/ args.queries.map = EmptyMap
              THEN INVOICE_QUERIES ELSE args.queries.map
        /\ \A i \in 1..Len(calls) : calls[i].args.queries = bound.queries

\* Data hash of a record, as the downstream consumer reads it.
HashOf(rec) == rec["metadata"]["data_hash"]
LoadedWith(h) == {i \in 1..loaded : HashOf(emitted[i]) = h}
Max(S) == CHOOSE x \in S : \A y \in S : y <= x

\* C7: the stage declares merge with primary key = merge key =
\* metadata__data_hash, every record carries its item's data_hash there, and
\* the merged table holds one row per data_hash, the latest record for it.
C7_IdempotentReingestion ==
    pc # "Unconfigured" =>
        /\ decl.write_disposition = "merge"
        /\ decl.merge_key = "metadata__data_hash"
        /\ decl.primary_key = "metadata__data_hash"
        /\ \A i \in 1..Len(hist) :
              hist[i].result = "Emitted" =>
                  HashOf(emitted[Rank(i)]) = hist[i].item["data_hash"]
        /\ \A i, j \in 1..Len(table) : HashOf(table[i]) = HashOf(table[j]) => i = j
        /\ \A i \in 1..Len(table) :
              table[i] = emitted[Max(LoadedWith(HashOf(table[i])))]
        /\ \A i \in 1..loaded : \E r \in 1..Len(table) : HashOf(table[r]) = HashOf(emitted[i])

C7_Witness ==
    /\ loaded = 2
    /\ Len(table) = 1
    /\ emitted[1] # emitted[2]
    /\ table[1] = emitted[2]

\* The arguments an engine call for item must carry, whatever the mode.
ExpectedArgs(item) ==
    [file_path |-> item["file_path"], queries |-> bound.queries,
     backend |-> vectorstore_mapping[bound.vectorstore]]

ResultOf(o) ==
    IF o.kind = "fields" THEN "Emitted"
    ELSE IF Catches(o.exc) THEN "SkippedUnsupported" ELSE "FatalPropagated"

\* C8: the engine call gets the same (file_path, queries, backend) in both
\* modes, the outcome of convert_data is decided by the engine's outcome
\* alone, and no engine call is left running when convert_data has returned.
C8_SyncAsyncEquivalence ==
    /\ (Started /\ Len(calls) = Base.calls + 1) =>
          /\ Last(calls).args = ExpectedArgs(Item)
          /\ Last(calls).fn = EngineFn(bound.run_async)
          /\ pc = "Extracting" \/ pc = ResultOf(Outcome)
          /\ pc = "Emitted" =>
                DOMAIN Last(emitted) = DOMAIN bound.queries \cup {"file_path", "metadata"}
          /\ pc = "FatalPropagated" => raised = Outcome.exc
    /\ pc # "Extracting" => \A i \in 1..Len(calls) : calls[i].done

C8_Witness ==
    /\ pc = "Emitted"
    /\ bound.run_async
    /\ bound.vectorstore = "weaviate"
    /\ Last(calls).fn = "aprocess_file_to_structured"
    /\ Last(calls).done

\* C9: an item whose file_path is the empty string yields no record and
\* starts no engine call.
C9_EmptyFilePathSkipped ==
    (Started /\ Get(Item, "file_path") = "") =>
        /\ Len(calls) = Base.calls
        /\ Len(emitted) = Base.emitted
        /\ pc \in {"Received", "SkippedMissing"}

\* C10 as stated: after the call the caller's item is what it was before.
C10_ItemNeverMutated ==
    pc \in Terminal => cur = Item

\* C10 as amended: a skip or a propagated failure leaves the caller's item
\* as it was; an emission removes the file_path key from it and nothing
\* else, and the record's metadata is that mapping.
C10_ItemLosesOnlyFilePath ==
    /\ pc \in Terminal \ {"Emitted"} => cur = Item
    /\ pc = "Emitted" =>
          /\ DOMAIN cur = DOMAIN Item \ {"file_path"}
          /\ \A k \in DOMAIN cur : cur[k] = Item[k]
          /\ Last(emitted)["metadata"] = cur
          /\ Last(emitted)["file_path"] = Item["file_path"]

C10_Witness ==
    /\ pc = "Emitted"
    /\ "file_path" \in DOMAIN Item
    /\ "file_path" \notin DOMAIN cur
    /\ cur["data_hash"] = Item["data_hash"]
====
